---- MODULE Spec2Model ----
(***************************************************************************)
(* husky-musher: the registration-redirect gateway.                        *)
(*                                                                         *)
(* The model covers husky_musher/utils/cache.py (Cache over a redis-like   *)
(* store), husky_musher/utils/redcap.py (REDCapClient: fetch_participant,  *)
(* register_participant, generate_survey_link, get_the_current_week,       *)
(* redcap_registration_complete) and husky_musher/blueprints/app.py        *)
(* (AppBlueprint.render_redirect) with the error handlers of               *)
(* husky_musher/app.py.                                                    *)
(*                                                                         *)
(* Python values are tagged records [t |-> type, v |-> content].  The      *)
(* text of a str is a sequence of tokens, so that startswith and           *)
(* concatenation are computed on the text.  A str of tag "json" is a str   *)
(* whose text is the JSON document v, as json.dumps writes it.             *)
(***************************************************************************)
EXTENDS Integers, Sequences, FiniteSets, TLC

\* ------------------------------------------------------------------ bounds
MaxRequests == 3   \* requests to GET / started in one behaviour
MaxRecords == 2   \* records the external project holds at most
MaxDay == 8   \* last day (days since the epoch of the model) the clock reaches
MaxStart == 3   \* latest study start date (days since the epoch of the model)
MaxOctDay == 10   \* last day of October 2020 among the dates of direct calls

\* ------------------------------------------------------- python values
None == [t |-> "None", v |-> 0]
PyStr(s) == [t |-> "str", v |-> s]
L(tok) == PyStr(<<tok>>)
PyInt(n) == [t |-> "int", v |-> n]
PyDict(f) == [t |-> "dict", v |-> f]
PyList(s) == [t |-> "list", v |-> s]
PyTuple(s) == [t |-> "tuple", v |-> s]
PySet(s) == [t |-> "set", v |-> s]
PyBool(b) == [t |-> "bool", v |-> b]
JsonText(doc) == [t |-> "json", v |-> doc]

EmptyDict == PyDict([k \in {} |-> None])

\* bool(value): the truth value python gives a value in `if value` / `not value`
Truthy(x) ==
    CASE x.t = "None" -> FALSE
      [] x.t = "str" -> Len(x.v) > 0
      [] x.t = "json" -> TRUE
      [] x.t = "int" -> x.v # 0
      [] x.t = "dict" -> DOMAIN x.v # {}
      [] x.t \in {"list", "tuple"} -> Len(x.v) > 0
      [] x.t = "set" -> x.v # {}
      [] x.t = "bool" -> x.v
      [] OTHER -> TRUE

\* results of calls: a returned value or a raised exception
Ok(x) == [ok |-> TRUE, val |-> x]
Raise(e) == [ok |-> FALSE, exc |-> e]

\* ----------------------------------------------------------------- json
\* JSON documents: [t |-> "jnull" | "jstr" | "jnum" | "jarr" | "jobj", v |-> ...];
\* the members of a jobj are a function from key texts to documents.
Decimal(n) == <<ToString(n)>>
IsNumeral(text) == Len(text) = 1 /\ \E n \in 0..99 : ToString(n) = text[1]
NumeralValue(text) == CHOOSE n \in 0..99 : ToString(n) = text[1]

\* the text json.dumps gives a dict key (str kept, int written in decimal)
KeyText(k) == IF k.t = "int" THEN Decimal(k.v) ELSE k.v

RECURSIVE Serializable(_)
Serializable(x) ==
    CASE x.t \in {"None", "str", "json", "int", "bool"} -> TRUE
      [] x.t = "dict" ->
            \A k \in DOMAIN x.v : k.t \in {"str", "int"} /\ Serializable(x.v[k])
      [] x.t \in {"list", "tuple"} -> \A i \in 1..Len(x.v) : Serializable(x.v[i])
      [] OTHER -> FALSE

\* the document json.dumps writes for a serializable value
RECURSIVE ToDoc(_)
ToDoc(x) ==
    CASE x.t = "None" -> [t |-> "jnull", v |-> 0]
      [] x.t = "str" -> [t |-> "jstr", v |-> x.v]
      [] x.t = "int" -> [t |-> "jnum", v |-> x.v]
      [] x.t = "bool" -> [t |-> "jbool", v |-> x.v]
      [] x.t = "dict" ->
            [t |-> "jobj",
             v |-> [kt \in {KeyText(k) : k \in DOMAIN x.v} |->
                      ToDoc(x.v[CHOOSE k \in DOMAIN x.v : KeyText(k) = kt])]]
      [] x.t \in {"list", "tuple"} ->
            [t |-> "jarr", v |-> [i \in 1..Len(x.v) |-> ToDoc(x.v[i])]]

\* the value json.loads builds from a document
RECURSIVE FromDoc(_)
FromDoc(d) ==
    CASE d.t = "jnull" -> None
      [] d.t = "jstr" -> PyStr(d.v)
      [] d.t = "jnum" -> PyInt(d.v)
      [] d.t = "jbool" -> PyBool(d.v)
      [] d.t = "jobj" -> PyDict([k \in {PyStr(kt) : kt \in DOMAIN d.v} |-> FromDoc(d.v[k.v])])
      [] d.t = "jarr" -> PyList([i \in 1..Len(d.v) |-> FromDoc(d.v[i])])

json_dumps(x) == IF Serializable(x) THEN Ok(JsonText(ToDoc(x))) ELSE Raise("TypeError")

json_loads(x) ==
    CASE x.t = "json" -> Ok(FromDoc(x.v))
      [] x.t = "str" -> IF IsNumeral(x.v) THEN Ok(PyInt(NumeralValue(x.v)))
                                          ELSE Raise("JSONDecodeError")
      [] OTHER -> Raise("TypeError")

\* ---------------------------------------------------------------- cache
\* AppSettings.app_name (default) followed by a dot: Cache.prefix
Prefix == "husky_musher."

startswith(text, tok) == Len(text) > 0 /\ text[1] = tok

\* mutant: the prefix is put before every key
sanitize_key_always(key) == <<Prefix>> \o key

\* Cache.sanitize_key, on the text of the key
sanitize_key(key) == IF ~startswith(key, Prefix) THEN <<Prefix>> \o key ELSE key

\* Cache._sanitize_value: bytes, str, int and float are kept, the rest is dumped
sanitize_value(value) ==
    IF value.t \notin {"str", "json", "int", "bool"} THEN json_dumps(value) ELSE Ok(value)

\* mutant: every entry has expired by the time it is read
RedisGetExpired(values, key) == None

\* MockRedis.get / MockRedis.set on the mapping _values
RedisGet(values, key) == IF key \in DOMAIN values THEN values[key] ELSE None
RedisSet(values, key, value) ==
    [k \in DOMAIN values \cup {key} |-> IF k = key THEN value ELSE values[k]]

\* cast_as(value) for the types the callers pass: "int" and "str"
Cast(cast_as, value) ==
    CASE cast_as = "int" ->
            CASE value.t \in {"int"} -> Ok(value)
              [] value.t = "bool" -> Ok(PyInt(IF value.v THEN 1 ELSE 0))
              [] value.t = "str" -> IF IsNumeral(value.v)
                                      THEN Ok(PyInt(NumeralValue(value.v)))
                                      ELSE Raise("ValueError")
              [] value.t = "json" -> IF value.v.t = "jnum" THEN Ok(PyInt(value.v.v))
                                                           ELSE Raise("ValueError")
              [] OTHER -> Raise("TypeError")
      [] cast_as = "str" ->
            CASE value.t \in {"str", "json"} -> Ok(value)
              [] value.t = "int" -> Ok(PyStr(Decimal(value.v)))
              [] value.t = "None" -> Ok(L("None"))
              [] value.t = "bool" -> Ok(L(IF value.v THEN "True" ELSE "False"))
              [] OTHER -> Raise("TypeError")

\* mutant: the key is looked up as given, without the prefix
CacheGetUnprefixed(values, key, load_json, cast_as) ==
    LET value == RedisGet(values, key)
    IN  IF Truthy(value) /\ load_json THEN json_loads(value)
        ELSE IF cast_as # "" THEN Cast(cast_as, value)
        ELSE Ok(value)

\* Cache.get(key, load_json, cast_as); cast_as = "" when not given
CacheGet(values, key, load_json, cast_as) ==
    LET value == RedisGet(values, sanitize_key(key))
    IN  IF Truthy(value) /\ load_json THEN json_loads(value)
        ELSE IF cast_as # "" THEN Cast(cast_as, value)
        ELSE Ok(value)

\* Cache.set(key, value): the mapping afterwards, or the exception raised
CacheSet(values, key, value) ==
    LET sv == sanitize_value(value)
    IN  IF sv.ok THEN Ok(RedisSet(values, sanitize_key(key), sv.val)) ELSE sv

\* dict literal {k1: v1, ...} from its items <<k, v>>, a later item winning
MkDict(items) ==
    PyDict([k \in {items[i][1] : i \in DOMAIN items} |->
              items[CHOOSE i \in DOMAIN items :
                      items[i][1] = k /\ \A j \in DOMAIN items : j > i => items[j][1] # k][2]])

\* dict.get(key): the value, or None
DictGet(d, key) == IF key \in DOMAIN d.v THEN d.v[key] ELSE None

\* --------------------------------------------------------------- redcap
Workers == {"w1", "w2"}
NetIds == {<<"ada">>, <<"bob">>}
Flags == {"0", "1", "2"}

\* REDCapValue.COMPLETE
COMPLETE == "2"

\* id3c.cli.redcap.is_complete(instrument, record): None when the record has no
\* <instrument>_complete field, else whether the field holds the complete value
is_complete(instrument, record) ==
    LET field == PyStr(instrument \o <<"_complete">>)
    IN  IF field \notin DOMAIN record.v THEN None
        ELSE PyBool(record.v[field] \in {L("Complete"), PyInt(2), L(COMPLETE)})

\* mutant: an unverified ("1") survey counts as complete
redcap_registration_complete_unverified(redcap_record) ==
    IF ~Truthy(redcap_record) THEN PyBool(FALSE)
    ELSE LET field == PyStr(<<"enrollment_questions", "_complete">>)
         IN  IF field \notin DOMAIN redcap_record.v THEN None
             ELSE PyBool(redcap_record.v[field] \in {L("1"), L(COMPLETE)})

\* REDCapClient.redcap_registration_complete
redcap_registration_complete(redcap_record) ==
    IF ~Truthy(redcap_record) THEN PyBool(FALSE)
    ELSE is_complete(<<"enrollment_questions">>, redcap_record)

\* mutant: weeks counted from 0
get_the_current_week_from_zero(now, start) == (now - start) \div 7

\* REDCapClient.get_the_current_week: now and start are day numbers, so that
\* now - start is (datetime.today() - redcap_study_start_date).days
get_the_current_week(now, start) == 1 + ((now - start) \div 7)

\* REDCapClient.get_todays_repeat_instance
get_todays_repeat_instance(now, start) == 1 + (now - start)

\* the row the record export gives for record number id of the project
ExportRow(project, id) ==
    MkDict(<< <<L("uw_netid"), PyStr(project[id].uw_netid)>>,
              <<L("record_id"), PyStr(Decimal(id))>>,
              <<PyStr(<<"enrollment_questions", "_complete">>), L(project[id].complete)>> >>)

\* the record export filtered by [uw_netid] = "<uw_netid>"
Export(project, uw_netid) ==
    LET ids == SelectSeq([i \in 1..Len(project) |-> i],
                         LAMBDA i : project[i].uw_netid = uw_netid)
    IN  PyList([n \in 1..Len(ids) |-> ExportRow(project, ids[n])])

\* mutant: the import leaves the project as it was
ImportNothing(project, user_info) == project

\* the record import of register_participant: one new record, numbered by the project
Import(project, user_info) ==
    Append(project, [uw_netid |-> DictGet(user_info, L("uw_netid")).v, complete |-> "0"])

\* mutant: the cached record is ignored
CacheHitNever(record) == FALSE

\* fetch_participant, cache lookup: whether the export is skipped
CacheHit(record) == Truthy(record)

\* mutant: of several exported records the first is taken
FetchFromExportFirst(records) ==
    IF ~Truthy(records) THEN [ret |-> Ok(None), cache |-> FALSE]
    ELSE [ret |-> Ok(records.v[1]),
          cache |-> Truthy(redcap_registration_complete(records.v[1]))]

\* mutant: the exported record is cached whatever its state
FetchFromExportCacheAll(records) ==
    IF ~Truthy(records) THEN [ret |-> Ok(None), cache |-> FALSE]
    ELSE IF Len(records.v) > 1 THEN [ret |-> Raise("BadRequest"), cache |-> FALSE]
    ELSE [ret |-> Ok(records.v[1]), cache |-> TRUE]

\* fetch_participant after the export: what it does with the exported records
\*   [ret |-> result of the call, cache |-> whether cache.set is called]
FetchFromExport(records) ==
    IF ~Truthy(records) THEN [ret |-> Ok(None), cache |-> FALSE]
    ELSE IF Len(records.v) > 1 THEN [ret |-> Raise("BadRequest"), cache |-> FALSE]
    ELSE [ret |-> Ok(records.v[1]),
          cache |-> Truthy(redcap_registration_complete(records.v[1]))]

\* generate_survey_link: the form data posted to the project
SurveyLinkData(record_id, event, instrument, instance) ==
    LET data == << <<L("content"), L("surveyLink")>>,
                   <<L("instrument"), instrument>>,
                   <<L("event"), event>>,
                   <<L("record"), record_id>> >>
    IN  IF Truthy(instance)
        THEN MkDict(Append(data, <<L("repeat_instance"), Cast("str", instance).val>>))
        ELSE MkDict(data)

\* ------------------------------------------------------- redirect handler
\* mutant: the uw_netid of the extracted attributes is not looked at
IdentityPresentRemoteOnly(remote_user, user_info) == Truthy(remote_user)

\* render_redirect: the identity check
IdentityPresent(remote_user, user_info) ==
    Truthy(remote_user) /\ Truthy(DictGet(user_info, L("uw_netid")))

\* mutant: only an explicit False keeps the participant in enrollment
ResolveUnlessFalse(redcap_record, now, start) ==
    IF redcap_registration_complete(redcap_record) # PyBool(FALSE)
    THEN [event |-> PyStr(<<"week_", ToString(get_the_current_week(now, start)), "_arm_1">>),
          instrument |-> L("test_form"),
          repeat_instance |-> None]
    ELSE [event |-> L("enrollment_arm_1"),
          instrument |-> L("enrollment_questions"),
          repeat_instance |-> None]

\* mutant: the event is named by the daily repeat instance
ResolveDaily(redcap_record, now, start) ==
    IF Truthy(redcap_registration_complete(redcap_record))
    THEN [event |-> PyStr(<<"week_", ToString(get_todays_repeat_instance(now, start)),
                            "_arm_1">>),
          instrument |-> L("test_form"),
          repeat_instance |-> None]
    ELSE [event |-> L("enrollment_arm_1"),
          instrument |-> L("enrollment_questions"),
          repeat_instance |-> None]

\* render_redirect: the survey the participant is sent to
Resolve(redcap_record, now, start) ==
    IF Truthy(redcap_registration_complete(redcap_record))
    THEN [event |-> PyStr(<<"week_", ToString(get_the_current_week(now, start)), "_arm_1">>),
          instrument |-> L("test_form"),
          repeat_instance |-> None]
    ELSE [event |-> L("enrollment_arm_1"),
          instrument |-> L("enrollment_questions"),
          repeat_instance |-> None]

\* mutant: an HTTP exception is rendered with its own status code
ErrorHandlerByCode(exc) ==
    CASE exc \in {"InvalidNetId", "BadRequest"} ->
             [status |-> 400, body |-> L("invalid_netid.html")]
      [] exc = "NotFound" -> [status |-> 404, body |-> L("page_not_found.html")]
      [] OTHER -> [status |-> 500, body |-> L("something_went_wrong.html")]

\* register_error_handlers: the page and status an exception is rendered as
ErrorHandler(exc) ==
    CASE exc = "NotFound" -> [status |-> 404, body |-> L("page_not_found.html")]
      [] exc = "InvalidNetId" -> [status |-> 400, body |-> L("invalid_netid.html")]
      [] OTHER -> [status |-> 500, body |-> L("something_went_wrong.html")]

\* flask.redirect(location)
Redirect(location) == [status |-> 302, body |-> location]

\* ---------------------------------------------------------------- state
VARIABLES
    redis,        \* the store behind Cache: MockRedis._values, key text -> stored value
    redcap,       \* the external project: record number -> [uw_netid, complete]
    today,        \* the day datetime.today() falls on
    settings,     \* AppSettings: [redcap_study_start_date]
    req,          \* per worker, the request to GET / it is handling
    started,      \* requests started so far
    unit          \* a direct call of one method, outside a request: the call and its result

vars == <<redis, redcap, today, settings, req, started, unit>>

NoCall == [op |-> "none"]

\* a worker between requests
Idle ==
    [pc |-> "idle", remote_user |-> None, user_info |-> EmptyDict, record |-> None,
     calls |-> <<>>, link_data |-> None, exc |-> "", response |-> None]

Called(r, op, ok) == [r EXCEPT !.calls = Append(@, [op |-> op, ok |-> ok])]

\* the request ends: the response is sent
Respond(r, response) == [r EXCEPT !.pc = "done", !.response = response]

\* mutant: the exception is swallowed and the browser sent back to /
FailRedirect(r, exc) == Respond([r EXCEPT !.exc = exc], Redirect(L("/")))

\* mutant: the failed step is left to be taken again
FailRetry(r, exc) == r

\* an exception leaves render_redirect and reaches the error handlers
Fail(r, exc) == Respond([r EXCEPT !.exc = exc], ErrorHandler(exc))

\* extract_user_info(environ): the attributes of the signed-in user, uw_netid among
\* them, or none of them
UserInfos == {MkDict(<< <<L("uw_netid"), PyStr(n)>> >>) : n \in NetIds} \cup {EmptyDict}

\* the outcomes of the call extract_user_info(environ): the attributes, or
\* InvalidNetId raised by the validation of the identifier
extract_user_info == {Ok(u) : u \in UserInfos} \cup {Raise("InvalidNetId")}

\* request.remote_user / REMOTE_USER
RemoteUsers == {L("remote_user"), None}

Init ==
    /\ redis = [k \in {} |-> None]
    /\ redcap = <<>>
    /\ today = 0
    /\ settings = [redcap_study_start_date |-> 0]
    /\ req = [w \in Workers |-> Idle]
    /\ started = 0
    /\ unit = NoCall

\* render_redirect, lines 38-47: identity extraction, extract_user_info having
\* one of the given outcomes
StartAs(w, outcomes) ==
    /\ req[w].pc \in {"idle", "done"}
    /\ started < MaxRequests
    /\ started' = started + 1
    /\ \E remote_user \in RemoteUsers, extracted \in outcomes :
          LET user_info == IF extracted.ok THEN extracted.val ELSE EmptyDict
              r == [Idle EXCEPT !.remote_user = remote_user, !.user_info = user_info]
          IN  req' = [req EXCEPT ![w] =
                        IF ~extracted.ok THEN Fail(r, extracted.exc)
                        ELSE IF IdentityPresent(remote_user, user_info)
                             THEN [r EXCEPT !.pc = "cache_get"]
                             ELSE Fail(r, "InternalServerError")]
    /\ UNCHANGED <<unit, redis, redcap, today, settings>>

Start(w) == StartAs(w, extract_user_info)

\* fetch_participant, lines 102-105: the cache lookup
FetchCacheGet(w) ==
    /\ req[w].pc = "cache_get"
    /\ LET uw_netid == DictGet(req[w].user_info, L("uw_netid")).v
           got == CacheGet(redis, uw_netid, TRUE, "")
           r == Called(req[w], "cache.get", got.ok)
       IN  req' = [req EXCEPT ![w] =
                     IF ~got.ok THEN Fail(r, got.exc)
                     ELSE IF CacheHit(got.val)
                          THEN [r EXCEPT !.record = got.val, !.pc = "link"]
                          ELSE [r EXCEPT !.record = got.val, !.pc = "export"]]
    /\ UNCHANGED <<unit, redis, redcap, today, settings, started>>

\* fetch_participant, lines 132-151: the record export and what follows it
FetchExport(w) ==
    /\ req[w].pc = "export"
    /\ \E http_ok \in BOOLEAN :
          LET uw_netid == DictGet(req[w].user_info, L("uw_netid")).v
              r == Called(req[w], "export", http_ok)
              f == FetchFromExport(Export(redcap, uw_netid))
          IN  req' = [req EXCEPT ![w] =
                        IF ~http_ok THEN Fail(r, "HTTPError")
                        ELSE IF ~f.ret.ok THEN Fail(r, f.ret.exc)
                        ELSE [r EXCEPT !.record = f.ret.val,
                                       !.pc = IF f.cache THEN "cache_set"
                                              ELSE IF Truthy(f.ret.val) THEN "link"
                                              ELSE "register"]]
    /\ UNCHANGED <<unit, redis, redcap, today, settings, started>>

\* fetch_participant, line 149: cache.set(uw_netid, record)
FetchCacheSet(w) ==
    /\ req[w].pc = "cache_set"
    /\ LET uw_netid == DictGet(req[w].user_info, L("uw_netid")).v
           put == CacheSet(redis, uw_netid, req[w].record)
           r == Called(req[w], "cache.set", put.ok)
       IN  /\ redis' = IF put.ok THEN put.val ELSE redis
           /\ req' = [req EXCEPT ![w] =
                        IF put.ok THEN [r EXCEPT !.pc = "link"] ELSE Fail(r, put.exc)]
    /\ UNCHANGED <<unit, redcap, today, settings, started>>

\* render_redirect, lines 51-54: register_participant and the record stub
Register(w) ==
    /\ req[w].pc = "register"
    /\ \E http_ok \in BOOLEAN :
          /\ http_ok => Len(redcap) < MaxRecords
          /\ LET r == Called(req[w], "import", http_ok)
                 new_record_id == PyStr(Decimal(Len(redcap) + 1))
             IN  /\ redcap' = IF http_ok THEN Import(redcap, req[w].user_info) ELSE redcap
                 /\ req' = [req EXCEPT ![w] =
                              IF ~http_ok THEN Fail(r, "HTTPError")
                              ELSE [r EXCEPT !.record =
                                                MkDict(<< <<L("record_id"), new_record_id>> >>),
                                             !.pc = "link"]]
    /\ UNCHANGED <<unit, redis, today, settings, started>>

\* render_redirect, lines 56-82: the survey is chosen, the link generated, the
\* browser redirected
GenerateLink(w) ==
    /\ req[w].pc = "link"
    /\ \E http_ok \in BOOLEAN :
          LET target == Resolve(req[w].record, today, settings.redcap_study_start_date)
              data == SurveyLinkData(DictGet(req[w].record, L("record_id")),
                                     target.event, target.instrument, None)
              r == [Called(req[w], "surveyLink", http_ok) EXCEPT !.link_data = data]
          IN  req' = [req EXCEPT ![w] =
                        IF ~http_ok THEN Fail(r, "HTTPError")
                        ELSE Respond(r, Redirect(JsonText(data)))]
    /\ UNCHANGED <<unit, redis, redcap, today, settings, started>>

\* the survey platform changes a record's enrollment_questions_complete
SurveyProgress ==
    /\ \E id \in 1..Len(redcap), c \in Flags :
          /\ c # redcap[id].complete
          /\ redcap' = [redcap EXCEPT ![id].complete = c]
    /\ UNCHANGED <<unit, redis, today, settings, req, started>>

\* midnight
Tick ==
    /\ today < MaxDay
    /\ today' = today + 1
    /\ UNCHANGED <<unit, redis, redcap, settings, req, started>>

\* Concurrent workers (gunicorn.conf.py: several worker processes), one date.
Next ==
    \/ \E w \in Workers : Start(w)
    \/ \E w \in Workers : FetchCacheGet(w)
    \/ \E w \in Workers : FetchExport(w)
    \/ \E w \in Workers : FetchCacheSet(w)
    \/ \E w \in Workers : Register(w)
    \/ \E w \in Workers : GenerateLink(w)
    \/ SurveyProgress

Spec == Init /\ [][Next]_vars

\* One worker handling request after request while the days pass, for every
\* configured study start date.
InitDay ==
    /\ redis = [k \in {} |-> None]
    /\ redcap = <<>>
    /\ today = 0
    /\ settings \in [redcap_study_start_date : 0..MaxStart]
    /\ req = [w \in Workers |-> Idle]
    /\ started = 0
    /\ unit = NoCall

NextDay ==
    \/ Start("w1")
    \/ FetchCacheGet("w1")
    \/ FetchExport("w1")
    \/ FetchCacheSet("w1")
    \/ Register("w1")
    \/ GenerateLink("w1")
    \/ SurveyProgress
    \/ Tick

SpecDay == InitDay /\ [][NextDay]_vars

\* One worker serving users whose identifiers differ by the application prefix
\* only: nothing in render_redirect restricts the text of uw_netid.
PrefixedNetIds == {<<"ada">>, <<Prefix, "ada">>}

PrefixedUserInfos == {Ok(MkDict(<< <<L("uw_netid"), PyStr(n)>> >>)) : n \in PrefixedNetIds}

NextPrefixed ==
    \/ StartAs("w1", PrefixedUserInfos)
    \/ FetchCacheGet("w1")
    \/ FetchExport("w1")
    \/ FetchCacheSet("w1")
    \/ Register("w1")
    \/ GenerateLink("w1")
    \/ SurveyProgress

SpecPrefixed == Init /\ [][NextPrefixed]_vars

\* ------------------------------------------------------ dates of datetime
\* datetime.strptime(text, '%Y-%m-%d') gives the date [y, m, d]; the difference of
\* two datetimes counts days between proleptic Gregorian ordinals.
IsLeap(y) == (y % 4 = 0) /\ ((y % 100 # 0) \/ (y % 400 = 0))
DaysInMonth(y, m) ==
    CASE m = 2 -> IF IsLeap(y) THEN 29 ELSE 28
      [] m \in {4, 6, 9, 11} -> 30
      [] OTHER -> 31
DaysBeforeYear(y) ==
    LET p == y - 1 IN p * 365 + (p \div 4) - (p \div 100) + (p \div 400)
RECURSIVE DaysBeforeMonth(_, _)
DaysBeforeMonth(y, m) ==
    IF m = 1 THEN 0 ELSE DaysBeforeMonth(y, m - 1) + DaysInMonth(y, m - 1)
ToOrdinal(date) == DaysBeforeYear(date.y) + DaysBeforeMonth(date.y, date.m) + date.d

Date(y, m, d) == [y |-> y, m |-> m, d |-> d]

\* ------------------------------------------- direct calls of the methods
UnitDates ==
    {Date(2020, 9, d) : d \in 10..30} \cup {Date(2020, 10, d) : d \in 1..MaxOctDay}
    \cup {Date(2020, 2, 28), Date(2020, 2, 29), Date(2020, 3, 1),
          Date(2021, 2, 28), Date(2021, 3, 1)}

\* a participant record with the given fields (items)
UnitRecords ==
    {None, EmptyDict, MkDict(<< <<L("record_id"), L("1")>> >>)}
    \cup {MkDict(<< <<L("uw_netid"), L("ada")>>, <<L("record_id"), L("1")>>,
                    <<PyStr(<<"enrollment_questions", "_complete">>), L(c)>> >>)
             : c \in Flags \cup {""}}
    \cup {MkDict(<< <<PyStr(<<"enrollment_questions", "_complete">>), L(c)>> >>)
             : c \in Flags}
    \cup {MkDict(<< <<PyStr(<<"eligibility_screening", "_complete">>), L(a)>>,
                    <<PyStr(<<"consent_form", "_complete">>), L(b)>>,
                    <<PyStr(<<"enrollment_questionnaire", "_complete">>), L(c)>> >>)
             : a \in Flags, b \in Flags, c \in Flags}

UnitEvents == {L("enrollment_arm_1"), PyStr(<<"week_", "1", "_arm_1">>)}

\* the instance argument of generate_survey_link: an int, or None when not given
UnitInstances == {None} \cup {PyInt(i) : i \in -1..2}

\* user identifiers handed to the Cache as keys: fetch_participant passes uw_netid
\* as it is
UnitIdentifiers == {<<"ada">>, <<"bob">>, <<Prefix, "ada">>, <<"sessions.", "ada">>}

\* configure_session_cache: the key prefix of the sessions kept in the same store
SessionKeyPrefix == <<Prefix, "sessions.">>

InitUnit ==
    /\ redis = [k \in {} |-> None]
    /\ redcap = <<>>
    /\ today = 0
    /\ settings = [redcap_study_start_date |-> 0]
    /\ req = [w \in Workers |-> Idle]
    /\ started = 0
    /\ unit \in {[op |-> "get_the_current_week", now |-> n, start |-> s, done |-> FALSE,
                   ret |-> None] : n \in UnitDates, s \in UnitDates}
           \cup {[op |-> "redcap_registration_complete", record |-> r, done |-> FALSE,
                   ret |-> None] : r \in UnitRecords}
           \cup {[op |-> "generate_survey_link", record_id |-> L("1"), event |-> e,
                   instrument |-> L("test_form"), instance |-> i, done |-> FALSE,
                   ret |-> None] : e \in UnitEvents, i \in UnitInstances}
           \cup {[op |-> "sanitize_key", a |-> a, b |-> b, done |-> FALSE, ret |-> None]
                   : a \in UnitIdentifiers, b \in UnitIdentifiers}

\* client.get_the_current_week() on the day unit.now, the study starting on unit.start
CallCurrentWeek ==
    /\ unit.op = "get_the_current_week" /\ ~unit.done
    /\ unit' = [unit EXCEPT !.done = TRUE,
                             !.ret = PyInt(get_the_current_week(ToOrdinal(unit.now),
                                                                ToOrdinal(unit.start)))]
    /\ UNCHANGED <<redis, redcap, today, settings, req, started>>

\* client.redcap_registration_complete(unit.record)
CallRegistrationComplete ==
    /\ unit.op = "redcap_registration_complete" /\ ~unit.done
    /\ unit' = [unit EXCEPT !.done = TRUE,
                             !.ret = redcap_registration_complete(unit.record)]
    /\ UNCHANGED <<redis, redcap, today, settings, req, started>>

\* client.generate_survey_link(record_id, event, instrument, instance): unit.ret is
\* the data of the request posted to the project
CallGenerateSurveyLink ==
    /\ unit.op = "generate_survey_link" /\ ~unit.done
    /\ unit' = [unit EXCEPT !.done = TRUE,
                             !.ret = SurveyLinkData(unit.record_id, unit.event,
                                                    unit.instrument, unit.instance)]
    /\ UNCHANGED <<redis, redcap, today, settings, req, started>>

\* cache.sanitize_key(unit.a) and cache.sanitize_key(unit.b): the store keys of
\* two user identifiers
CallSanitizeKey ==
    /\ unit.op = "sanitize_key" /\ ~unit.done
    /\ unit' = [unit EXCEPT !.done = TRUE,
                             !.ret = [a |-> sanitize_key(unit.a), b |-> sanitize_key(unit.b)]]
    /\ UNCHANGED <<redis, redcap, today, settings, req, started>>

NextUnit ==
    \/ CallCurrentWeek
    \/ CallRegistrationComplete
    \/ CallGenerateSurveyLink
    \/ CallSanitizeKey

SpecUnit == InitUnit /\ [][NextUnit]_vars

\* ------------------------------------------------ direct calls of the Cache
CacheKeys == {<<"foo">>, <<Prefix, "foo">>, <<"bar">>}

CacheValues ==
    {MkDict(<< <<L("uw_netid"), L("ada")>>, <<L("record_id"), L("1")>>,
               <<PyStr(<<"enrollment_questions", "_complete">>), L("2")>> >>),
     EmptyDict,
     MkDict(<< <<PyInt(1), L("a")>> >>),
     PyTuple(<<L("a"), L("b")>>),
     PySet({L("a")}),
     L("abc"), PyInt(123), PyInt(0)}

CastTypes == {"", "int", "str"}

InitCache ==
    /\ redis = [k \in {} |-> None]
    /\ redcap = <<>>
    /\ today = 0
    /\ settings = [redcap_study_start_date |-> 0]
    /\ req = [w \in Workers |-> Idle]
    /\ started = 0
    /\ unit = [op |-> "new", written |-> [k \in {} |-> None], shadowed |-> {}]

\* two keys given to the Cache that differ at most by the application prefix
SameEntry(a, b) == a = b \/ a = <<Prefix>> \o b \/ b = <<Prefix>> \o a

\* cache.set(key, value); unit.written keeps, per key given, the value last set,
\* unit.shadowed the keys given whose entry a later set under another key replaced
CallCacheSet ==
    /\ unit.op \in {"new", "set", "get"}
    /\ \E key \in CacheKeys, value \in CacheValues :
          LET put == CacheSet(redis, key, value)
          IN  /\ redis' = IF put.ok THEN put.val ELSE redis
              /\ unit' = [op |-> "set", key |-> key, value |-> value,
                           ret |-> IF put.ok THEN Ok(None) ELSE put,
                           written |-> IF put.ok
                                       THEN [k \in DOMAIN unit.written \cup {key} |->
                                               IF k = key THEN value ELSE unit.written[k]]
                                       ELSE unit.written,
                           shadowed |-> IF put.ok
                                        THEN (unit.shadowed \ {key}) \cup
                                             {k \in DOMAIN unit.written :
                                                k # key /\ SameEntry(k, key)}
                                        ELSE unit.shadowed]
    /\ UNCHANGED <<redcap, today, settings, req, started>>

\* cache.get(key, load_json, cast_as)
CallCacheGet ==
    /\ unit.op \in {"new", "set", "get"}
    /\ \E key \in CacheKeys, load_json \in BOOLEAN, cast_as \in CastTypes :
          unit' = [op |-> "get", key |-> key, load_json |-> load_json, cast_as |-> cast_as,
                   ret |-> CacheGet(redis, key, load_json, cast_as),
                   written |-> unit.written, shadowed |-> unit.shadowed]
    /\ UNCHANGED <<redis, redcap, today, settings, req, started>>

NextCache ==
    \/ CallCacheSet
    \/ CallCacheGet

SpecCache == InitCache /\ [][NextCache]_vars

\* =============================================================== claims
NetIdOf(r) == DictGet(r.user_info, L("uw_netid")).v
Matching(uw_netid) == {id \in 1..Len(redcap) : redcap[id].uw_netid = uw_netid}
CompleteField == PyStr(<<"enrollment_questions", "_complete">>)
Ops(r) == [i \in 1..Len(r.calls) |-> r.calls[i].op]
HasOp(r, op) == \E i \in 1..Len(r.calls) : r.calls[i].op = op
LastCall(r) == r.calls[Len(r.calls)]

\* the step of worker w in which its record export answered
Exported(w) ==
    /\ req[w].pc = "export" /\ req'[w].pc # "export"
    /\ LastCall(req'[w]).op = "export" /\ LastCall(req'[w]).ok

C2_CacheHoldsComplete ==
    \A k \in DOMAIN redis :
        LET got == json_loads(redis[k])
        IN  /\ got.ok /\ got.val.t = "dict"
            /\ DictGet(got.val, CompleteField) = L("2")
            /\ DictGet(got.val, L("record_id")) # None

\* C2 witness: a record was cached while another record of the project is incomplete
C2_Witness ==
    /\ DOMAIN redis # {}
    /\ \E id \in 1..Len(redcap) : redcap[id].complete # "2"

\* C3: when the cache holds a record for the user, fetch_participant returns that
\* cached record and makes no record export.
C3_CacheFirst ==
    [][\A w \in Workers :
          (/\ req[w].pc = "cache_get" /\ req'[w] # req[w]
           /\ <<Prefix>> \o NetIdOf(req[w]) \in DOMAIN redis) =>
             /\ req'[w].pc = "link"
             /\ JsonText(ToDoc(req'[w].record)) = redis[<<Prefix>> \o NetIdOf(req[w])]
             /\ ~HasOp(req'[w], "export")]_vars

\* C3 witness: fetch_participant returned a cached record while the project holds
\* a different state of that record
C3_Witness ==
    \E w \in Workers :
        /\ req[w].pc = "link" /\ Ops(req[w]) = <<"cache.get">>
        /\ DictGet(req[w].record, CompleteField) = L("2")
        /\ \E id \in Matching(NetIdOf(req[w])) : redcap[id].complete # "2"

\* the step of worker w in which it asks the project for the survey link
Linked(w) == req[w].pc = "link" /\ req'[w].pc = "done"

NotComplete(rec) == DictGet(rec, CompleteField) # L("2")

\* C4: for a record without the enrollment-complete flag or with a flag that is
\* not complete (the {record_id} stub of a new participant included), the handler
\* asks for the survey link of event enrollment_arm_1, instrument
\* enrollment_questions, no repeat instance, and no exception is raised before
\* the link is asked for: the link call answering, the request ends in the
\* redirect to that link.
C4_EnrollmentTarget ==
    [][\A w \in Workers : (Linked(w) /\ NotComplete(req[w].record)) =>
          LET data == req'[w].link_data
          IN  /\ LastCall(req'[w]).op = "surveyLink"
              /\ DictGet(data, L("event")) = L("enrollment_arm_1")
              /\ DictGet(data, L("instrument")) = L("enrollment_questions")
              /\ DictGet(data, L("record")) = DictGet(req[w].record, L("record_id"))
              /\ L("repeat_instance") \notin DOMAIN data.v
              /\ LastCall(req'[w]).ok =>
                    /\ req'[w].response.status = 302
                    /\ req'[w].response.body = JsonText(data)
                    /\ req'[w].exc = ""]_vars

\* C4 witness: the request of a newly registered participant was redirected
C4_Witness ==
    \E w \in Workers :
        /\ req[w].pc = "done" /\ req[w].response.status = 302
        /\ HasOp(req[w], "import")
        /\ DOMAIN req[w].record.v = {L("record_id")}

\* C5: for a record whose enrollment-complete flag is "2", the handler asks for
\* the survey link of event week_N_arm_1, N = floor(days since study start / 7) + 1,
\* instrument test_form, no repeat instance; N is fixed by the current date and
\* the configured study start date alone.
C5_WeeklyTarget ==
    [][\A w \in Workers : (Linked(w) /\ ~NotComplete(req[w].record)) =>
          LET data == req'[w].link_data
              days == today - settings.redcap_study_start_date
          IN  /\ LastCall(req'[w]).op = "surveyLink"
              /\ \E N \in -MaxStart..MaxDay :
                    /\ 7 * (N - 1) <= days /\ days < 7 * N
                    /\ DictGet(data, L("event")) = PyStr(<<"week_", ToString(N), "_arm_1">>)
              /\ DictGet(data, L("instrument")) = L("test_form")
              /\ DictGet(data, L("record")) = DictGet(req[w].record, L("record_id"))
              /\ L("repeat_instance") \notin DOMAIN data.v]_vars

\* C5 witness: a complete participant was sent to the survey of week 2
C5_Witness ==
    \E w \in Workers :
        /\ req[w].pc = "done" /\ req[w].response.status = 302
        /\ DictGet(req[w].link_data, L("event")) = PyStr(<<"week_", "2", "_arm_1">>)
        /\ DictGet(req[w].link_data, L("instrument")) = L("test_form")

\* C6: get_the_current_week is 1 + floor(days since start / 7): 1 on the start
\* date and the six days after it, 3 fourteen days after it (study start
\* 2020-09-24, today 2020-10-08).
C6_CurrentWeek ==
    (unit.op = "get_the_current_week" /\ unit.done) =>
        LET days == ToOrdinal(unit.now) - ToOrdinal(unit.start)
            week == unit.ret.v
        IN  /\ unit.ret.t = "int"
            /\ 7 * (week - 1) <= days /\ days < 7 * week
            /\ days \in 0..6 => week = 1
            /\ days = 14 => week = 3
            /\ (unit.start = Date(2020, 9, 24) /\ unit.now = Date(2020, 10, 8)) => week = 3
            /\ (unit.start = Date(2020, 9, 24) /\ unit.now = Date(2020, 9, 30)) => week = 1
            /\ (unit.start = Date(2020, 9, 24) /\ unit.now = Date(2020, 10, 1)) => week = 2

\* C6 witness: the week of 2020-10-08 for a study started on 2020-09-24 was computed
C6_Witness ==
    /\ unit.op = "get_the_current_week" /\ unit.done
    /\ unit.start = Date(2020, 9, 24) /\ unit.now = Date(2020, 10, 8)
    /\ unit.ret = PyInt(3)

CallOrders ==
    {<<"cache.get", "surveyLink">>,
     <<"cache.get", "export", "surveyLink">>,
     <<"cache.get", "export", "cache.set", "surveyLink">>,
     <<"cache.get", "export", "import", "surveyLink">>}
IsPrefix(a, b) == Len(a) <= Len(b) /\ \A i \in 1..Len(a) : a[i] = b[i]

\* C10: a request to GET / ends in exactly one of redirect(survey_link) and an
\* error page, its steps in the order identity extraction, fetch-or-register,
\* resolve, generate link, redirect; it redirects only after its own survey link
\* was generated.
C10_TwoOutcomes ==
    \A w \in Workers :
        LET r == req[w]
        IN  /\ r.pc # "done" => r.response = None /\ r.exc = ""
            /\ r.pc # "idle" => \E o \in CallOrders : IsPrefix(Ops(r), o)
            /\ r.pc \notin {"idle", "done"} => IdentityPresent(r.remote_user, r.user_info)
            /\ \A i \in 1..Len(r.calls) : ~r.calls[i].ok => i = Len(r.calls) /\ r.pc = "done"
            /\ r.pc = "done" =>
                  /\ r.response.status \in {302, 400, 500}
                  /\ r.response.status = 302 <=> r.exc = ""
                  /\ r.response.status = 302 =>
                        /\ Ops(r) \in CallOrders
                        /\ LastCall(r).op = "surveyLink" /\ LastCall(r).ok
                        /\ r.response.body = JsonText(r.link_data)
                  /\ r.response.status # 302 =>
                        r.response.body \in {L("something_went_wrong.html"),
                                             L("invalid_netid.html")}

\* C10 witness: one request redirected while another ended in the error page
C10_Witness ==
    \E w1 \in Workers, w2 \in Workers :
        /\ req[w1].pc = "done" /\ req[w1].response.status = 302
        /\ req[w2].pc = "done" /\ req[w2].response.status = 500

\* what the stored form of a value decodes to: JSON text is loaded, the rest is itself
Decoded(x) == IF x.t = "json" THEN FromDoc(x.v) ELSE x
IsStructure(v) == v.t \in {"dict", "list", "tuple"}

\* values JSON keeps as they are: str, int, None, lists and str-keyed dicts of such
RECURSIVE Faithful(_)
Faithful(v) ==
    CASE v.t \in {"None", "str", "int"} -> TRUE
      [] v.t = "dict" -> \A k \in DOMAIN v.v : k.t = "str" /\ Faithful(v.v[k])
      [] v.t = "list" -> \A i \in 1..Len(v.v) : Faithful(v.v[i])
      [] OTHER -> FALSE

RoundTrip(v) ==
    /\ ~unit.load_json => unit.ret.ok /\ Decoded(unit.ret.val) = v
    /\ (unit.load_json /\ IsStructure(v)) => unit.ret = Ok(v)

\* C8 as stated: for every key k and value v, after set(k, v) with no later set
\* on k, get(k) returns a value decodable to v, and get(k, load_json=True)
\* returns v when v is a JSON-serializable structure.
C8_RoundTripAnyKeyAnyValue ==
    (unit.op = "get" /\ unit.cast_as = "" /\ unit.key \in DOMAIN unit.written) =>
        RoundTrip(unit.written[unit.key])

\* C8 amended: the same for every value JSON keeps as it is (str, int, None,
\* lists and str-keyed dicts of such values) and with no later set on k or on
\* the key that differs from k only by the application prefix.
C8_RoundTrip ==
    (/\ unit.op = "get" /\ unit.cast_as = "" /\ unit.key \in DOMAIN unit.written
     /\ unit.key \notin unit.shadowed
     /\ Faithful(unit.written[unit.key])) =>
        RoundTrip(unit.written[unit.key])

\* C8 witness: a participant record set under a key was read back with load_json
C8_Witness ==
    /\ unit.op = "get" /\ unit.cast_as = "" /\ unit.load_json
    /\ unit.key \in DOMAIN unit.written /\ unit.key \notin unit.shadowed
    /\ unit.written[unit.key].t = "dict"
    /\ DictGet(unit.written[unit.key], CompleteField) = L("2")
    /\ unit.ret = Ok(unit.written[unit.key])
    /\ Cardinality(DOMAIN unit.written) > 1

\* C9: Cache.get on a key never set returns None and raises nothing, whatever
\* load_json and cast_as are.
C9_MissingKeyIsAbsent ==
    (unit.op = "get" /\ \A k \in DOMAIN unit.written : ~SameEntry(k, unit.key)) =>
        unit.ret = Ok(None)

\* the stages of the redirect chain an exception is raised in
Stage(r) ==
    IF r.calls = <<>> THEN "identity"
    ELSE IF LastCall(r).op \in {"cache.get", "export", "cache.set"} THEN "fetch"
    ELSE IF LastCall(r).op = "import" THEN "register"
    ELSE "link"

\* C11: an exception raised in the redirect chain (identity extraction, fetch,
\* register, link generation) ends the request in the page
\* something_went_wrong.html with status 500, except InvalidNetId, which ends it
\* in the page invalid_netid.html with status 400; a failed call always raises.
C11_ErrorPages ==
    \A w \in Workers :
        LET r == req[w]
        IN  /\ (\E i \in 1..Len(r.calls) : ~r.calls[i].ok) => r.pc = "done" /\ r.exc # ""
            /\ r.exc # "" =>
                  /\ r.pc = "done"
                  /\ r.exc = "InvalidNetId" =>
                        r.response = [status |-> 400, body |-> L("invalid_netid.html")]
                  /\ r.exc # "InvalidNetId" =>
                        r.response = [status |-> 500, body |-> L("something_went_wrong.html")]

\* C11 witness: one request ended in the 400 page for InvalidNetId while another,
\* whose registration failed, ended in the 500 page
C11_Witness ==
    \E w1 \in Workers, w2 \in Workers :
        /\ req[w1].exc = "InvalidNetId" /\ req[w1].response.status = 400
        /\ req[w2].exc = "HTTPError" /\ Stage(req[w2]) = "register"
        /\ req[w2].response.status = 500

\* C12: a request whose user has more than one record in the project ends in a
\* client error, a response with a 4xx status.
C12_AmbiguousIsClientError ==
    \A w \in Workers :
        (/\ req[w].pc = "done" /\ HasOp(req[w], "export") /\ LastCall(req[w]).ok
         /\ Cardinality(Matching(NetIdOf(req[w]))) >= 2
         /\ LastCall(req[w]).op = "export") =>
            req[w].response.status \in 400..499

\* C13: a request without the authenticated-user context (no remote user, or no
\* uw_netid among the extracted attributes) ends in InternalServerError, rendered
\* with status 500, having made no cache access and no call to the project.
C13_NoIdentityNoCalls ==
    \A w \in Workers :
        LET r == req[w]
        IN  (/\ r.pc # "idle" /\ r.exc # "InvalidNetId"
             /\ (r.remote_user = None \/ L("uw_netid") \notin DOMAIN r.user_info.v)) =>
                /\ r.pc = "done" /\ r.exc = "InternalServerError"
                /\ r.response.status = 500
                /\ r.calls = <<>> /\ r.record = None /\ r.link_data = None

\* C13 witness: a request with a remote user but no uw_netid, and one with a
\* uw_netid but no remote user, both ended in InternalServerError
C13_Witness ==
    \E w1 \in Workers, w2 \in Workers :
        /\ req[w1].exc = "InternalServerError" /\ req[w2].exc = "InternalServerError"
        /\ Truthy(req[w1].remote_user) /\ req[w1].user_info = EmptyDict
        /\ req[w2].remote_user = None /\ req[w2].user_info # EmptyDict

\* C14: the data generate_survey_link posts holds repeat_instance exactly when
\* an instance is given and is not None, whatever integer it is.
C14_RepeatInstanceWhenGiven ==
    (unit.op = "generate_survey_link" /\ unit.done) =>
        (L("repeat_instance") \in DOMAIN unit.ret.v <=> unit.instance # None)

ExternalOps == {"export", "import", "surveyLink"}
NoFailure(r) == \A i \in 1..Len(r.calls) : r.calls[i].ok

\* C15: within one request each of the record export, the record import and the
\* survey-link call is made at most once; a failed call is the request's last
\* call and ends it in the error page; the cache is written and a record
\* created only by a request none of whose calls has failed.
C15_NoRetry ==
    [][/\ \A w \in Workers :
             LET r == req'[w]
             IN  /\ \A i, j \in 1..Len(r.calls) :
                       (r.calls[i].op \in ExternalOps /\ r.calls[i].op = r.calls[j].op)
                           => i = j
                 /\ \A i \in 1..Len(r.calls) : ~r.calls[i].ok =>
                       /\ i = Len(r.calls)
                       /\ r.pc = "done" /\ r.exc # "" /\ r.response.status = 500
                 /\ (~NoFailure(req[w]) /\ r # req[w]) => r.calls = <<>>
       /\ (redis' # redis \/ Len(redcap') # Len(redcap)) =>
             \E w \in Workers :
                 /\ NoFailure(req'[w])
                 /\ Len(req'[w].calls) = Len(req[w].calls) + 1
                 /\ LastCall(req'[w]).op =
                       IF redis' # redis THEN "cache.set" ELSE "import"]_vars

\* C15 witness: a request ended in the error page on its failed record import,
\* after its export had answered; no record was created
C15_Witness ==
    \E w \in Workers :
        /\ req[w].pc = "done" /\ req[w].response.status = 500
        /\ Ops(req[w]) = <<"cache.get", "export", "import">>
        /\ ~LastCall(req[w]).ok
        /\ redcap = <<>>

\* the step of worker w in which fetch_participant returns to render_redirect
FetchReturned(w) ==
    req[w].pc \in {"cache_get", "export", "cache_set"} /\ req'[w].pc \in {"register", "link"}

\* the step of worker w in which register_participant posts its record import
Imported(w) ==
    /\ Len(req'[w].calls) = Len(req[w].calls) + 1
    /\ LastCall(req'[w]).op = "import"

\* C16: render_redirect goes on to register_participant exactly when
\* fetch_participant returned no record; an answered import adds exactly one
\* record to the project, that of the user, the others kept as they are, and a
\* failed import adds none; the survey link of a request that registered is
\* asked for the record that request created.
C16_RegisterWhenAbsent ==
    [][\A w \in Workers :
          /\ FetchReturned(w) =>
                (req'[w].pc = "register" <=> req'[w].record \in {None, EmptyDict})
          /\ Imported(w) =>
                /\ req[w].pc = "register" /\ req[w].record = None
                /\ ~HasOp(req[w], "import")
                /\ IF LastCall(req'[w]).ok
                   THEN /\ Len(redcap') = Len(redcap) + 1
                        /\ SubSeq(redcap', 1, Len(redcap)) = redcap
                        /\ redcap'[Len(redcap')].uw_netid = NetIdOf(req[w])
                        /\ req'[w].record =
                              MkDict(<< <<L("record_id"), PyStr(Decimal(Len(redcap')))>> >>)
                   ELSE redcap' = redcap
          /\ ~Imported(w) => Len(redcap') = Len(redcap) \/ \E v \in Workers : Imported(v)
          /\ Linked(w) =>
                IF HasOp(req[w], "import")
                THEN /\ DictGet(req'[w].link_data, L("record"))
                           = DictGet(req[w].record, L("record_id"))
                     /\ \E id \in Matching(NetIdOf(req[w])) :
                           DictGet(req'[w].link_data, L("record")) = PyStr(Decimal(id))
                ELSE DictGet(req[w].record, L("uw_netid")) = PyStr(NetIdOf(req[w]))]_vars

\* C16 witness: a request that found no record of bob registered him as record 2
\* and was redirected to the survey link of record 2
C16_Witness ==
    \E w \in Workers :
        /\ req[w].pc = "done" /\ req[w].response.status = 302
        /\ Ops(req[w]) = <<"cache.get", "export", "import", "surveyLink">>
        /\ NetIdOf(req[w]) = <<"bob">>
        /\ DictGet(req[w].link_data, L("record")) = L("2")
        /\ Len(redcap) = 2 /\ redcap[2].uw_netid = <<"bob">> /\ redcap[1].uw_netid = <<"ada">>

\* C17: the project never holds two records with the same uw_netid, whatever the
\* interleaving of the workers' requests.
C17_UniquePerUser ==
    \A id1, id2 \in 1..Len(redcap) :
        redcap[id1].uw_netid = redcap[id2].uw_netid => id1 = id2

\* the step of worker w in which its cache.set stored a value
CacheWritten(w) ==
    /\ req[w].pc = "cache_set" /\ req'[w].pc = "link"
    /\ LastCall(req'[w]).op = "cache.set" /\ LastCall(req'[w]).ok

C19_PrefixedKeys ==
    /\ \A k \in DOMAIN redis : startswith(k, Prefix)
    /\ unit.op \in {"get", "set"} =>
          LET sk == sanitize_key(unit.key)
          IN  /\ startswith(sk, Prefix)
              /\ sk \in {unit.key, <<Prefix>> \o unit.key}
              /\ startswith(unit.key, Prefix) => sk = unit.key
              /\ sanitize_key(sk) = sk
              /\ (unit.op = "set" /\ unit.ret.ok) =>
                    sk \in DOMAIN redis /\ sanitize_value(unit.value) = Ok(redis[sk])
              /\ (unit.op = "get" /\ ~unit.load_json /\ unit.cast_as = "") =>
                    unit.ret = Ok(RedisGet(redis, sk))

\* C19 witness: a value set under the unprefixed key foo was read under the
\* prefixed key, the store holding the one entry husky_musher.foo
C19_Witness ==
    /\ unit.op = "get" /\ unit.key = <<Prefix, "foo">> /\ ~unit.load_json /\ unit.cast_as = ""
    /\ DOMAIN unit.written = {<<"foo">>}
    /\ DOMAIN redis = {<<Prefix, "foo">>}
    /\ unit.ret = Ok(redis[<<Prefix, "foo">>])

ScreeningFields ==
    {PyStr(<<"eligibility_screening", "_complete">>),
     PyStr(<<"consent_form", "_complete">>),
     PyStr(<<"enrollment_questionnaire", "_complete">>)}

\* C21: for a record holding eligibility_screening_complete,
\* consent_form_complete and enrollment_questionnaire_complete,
\* redcap_registration_complete returns True when all three are "2" and returns
\* False when any of them is "0" or "1".
C21_ThreeFlags ==
    (/\ unit.op = "redcap_registration_complete" /\ unit.done
     /\ unit.record.t = "dict" /\ DOMAIN unit.record.v = ScreeningFields) =>
        unit.ret = PyBool(\A f \in ScreeningFields : unit.record.v[f] = L("2"))

\* C22: Cache.get(key, load_json=True, cast_as=str) on a key holding a
\* JSON-serialized value returns a str, str applied to the decoded value, and
\* not the decoded value itself.
C22_CastAfterLoad ==
    (/\ unit.op = "get" /\ unit.load_json /\ unit.cast_as = "str"
     /\ sanitize_key(unit.key) \in DOMAIN redis
     /\ redis[sanitize_key(unit.key)].t = "json") =>
        /\ unit.ret.ok
        /\ unit.ret.val.t = "str"
        /\ unit.ret # json_loads(redis[sanitize_key(unit.key)])

\* C23: a request is redirected only to the survey link of a record of its own
\* user: the record named in the link request has the request's uw_netid (the
\* record the request itself registered has it too).
C23_OwnRecordOnly ==
    \A w \in Workers :
        (req[w].pc = "done" /\ req[w].response.status = 302) =>
            \E id \in Matching(NetIdOf(req[w])) :
                DictGet(req[w].link_data, L("record")) = PyStr(Decimal(id))

\* C24: two different user identifiers never have the same store key, also when
\* one of them begins with the application prefix, and the store key of a user
\* identifier never begins with the key prefix of the sessions.
C24_CollisionFree ==
    (unit.op = "sanitize_key" /\ unit.done) =>
        /\ unit.a # unit.b => unit.ret.a # unit.ret.b
        /\ ~IsPrefix(SessionKeyPrefix, unit.ret.a)

====
